---- MODULE Spec2Model ----
(***************************************************************************)
(* StaticArc<T> (src/src/lib.rs): one heap cell StaticArcInner{counter,    *)
(* value} shared by N handles that are produced together by new_recover    *)
(* and never cloned.  Every handle is owned by one thread at a time        *)
(* (StaticArc is Send, not Sync), so the operations of one handle are      *)
(* sequential, while the steps of different handles interleave freely.     *)
(* Each atomic access (SeqCst load, SeqCst fetch_sub) and each raw memory  *)
(* operation (ptr::read, ManuallyDrop::drop, Box::from_raw) is one step.   *)
(***************************************************************************)
EXTENDS Integers, FiniteSets, Sequences, TLC

\* bounds of the model
MaxN == 3
MaxVal == 1

Handles == 1..MaxN
Values == 0..MaxVal
NoVal == 0 - 1

\* usize::MAX, the result of fetch_sub(1) on a counter that is 0.  TLC's
\* integers are 32 bits wide, so the largest of them stands for 2^64 - 1.
UsizeMax == (2^30 - 1) * 2 + 1

VARIABLES
    constructed,  \* new / new_recover has run
    N,            \* the const generic N of the construction
    ctor,         \* what the construction returned
    allocated,    \* the Box<StaticArcInner<T>> is allocated
    counter,      \* StaticArcInner::counter
    value,        \* StaticArcInner::value
    pc,           \* position of each handle
    call,         \* the consuming call each handle is inside of
    ret,          \* the handle, operation and result of the last return
    grant,        \* the handle's owner holds the &mut T of try_as_ref_mut
    prev,         \* what the handle's fetch_sub returned
    moved,        \* the local `value` of try_into_inner_recover (ptr::read)
    seenOne,      \* history: the handle has loaded counter == 1
    decs,         \* history: number of fetch_sub's each handle has done
    allocs,       \* history: number of Box::new
    freedBy,      \* history: sequence of <<handle, path>> of each Box drop
    destructed,   \* history: number of runs of T's destructor
    written,      \* history: the value last stored into the cell
    original,     \* history: the value passed to the construction
    uaf           \* history: a step touched the cell after its deallocation

vars == <<constructed, N, ctor, allocated, counter, value, pc, call, ret,
          grant, prev, moved, seenOne, decs, allocs, freedBy, destructed,
          written, original, uaf>>

cell == <<allocated, counter, value>>
hist == <<allocs, freedBy, destructed, written, original>>

Ret(h, op, kind, val) == [h |-> h, op |-> op, kind |-> kind, val |-> val]
NoRet == Ret(0, "none", "none", NoVal)

\* self.arc().counter.load(): the counter, or anything once the cell is freed
arc_counter == IF allocated THEN {counter} ELSE {counter} \cup (0..MaxN)
\* &self.arc().value: the value, or anything once the cell is freed
arc_value == IF allocated THEN {value} ELSE Values

\* the check lets two owners through
IsSole_two(c) == c <= 2
\* the check compares with 0
IsSole_zero(c) == c = 0
\* `self.live() == 1` of try_as_ref_mut
IsSole(c) == c = 1
\* the drop that leaves one owner behind tears the cell down as well
WasLast_two(old) == old <= 2
\* the previous value is compared with 0: no drop ever tears down
WasLast_zero(old) == old = 0
\* `fetch_sub(1, SeqCst) == 1` of drop
WasLast(old) == old = 1
\* the decrement takes two
fetch_sub_two(c) == c - 2
\* fetch_add in place of fetch_sub
fetch_sub_add(c) == c + 1
\* the new counter of fetch_sub(1): wrapping subtraction
fetch_sub(c) == IF c = 0 THEN UsizeMax ELSE c - 1

Init ==
    /\ constructed = FALSE
    /\ N = 0
    /\ ctor = NoRet
    /\ allocated = FALSE
    /\ counter = 0
    /\ value = NoVal
    /\ pc = [h \in Handles |-> "none"]
    /\ call = [h \in Handles |-> "none"]
    /\ ret = NoRet
    /\ grant = [h \in Handles |-> FALSE]
    /\ prev = [h \in Handles |-> NoVal]
    /\ moved = [h \in Handles |-> NoVal]
    /\ seenOne = [h \in Handles |-> FALSE]
    /\ decs = [h \in Handles |-> 0]
    /\ allocs = 0
    /\ freedBy = <<>>
    /\ destructed = 0
    /\ written = NoVal
    /\ original = NoVal
    /\ uaf = FALSE

\* the counter starts one too low
InitialCounter_minus(n) == n - 1
\* the counter starts one too high
InitialCounter_plus(n) == n + 1
\* AtomicUsize::new(N)
InitialCounter(n) == n
\* the loop stops one short
InitialHandles_short(n) == 1..(n - 1)
\* `for i in 0..N { ... write(StaticArc { inner }) }`: the handles written
InitialHandles(n) == 1..n

\* a batch of no handles is let through
TooFew_never(n) == n < 0
\* `if N < 1` of new_recover
TooFew(n) == n < 1

\* new_recover::<N>(value), and new::<N>(value) == new_recover(value).ok()
construct(api, n, v) ==
    /\ ~constructed
    /\ constructed' = TRUE
    /\ N' = n
    /\ original' = v
    /\ IF TooFew(n)
       THEN /\ ctor' = IF api = "new_recover"
                       THEN Ret(0, api, "Err", v)
                       ELSE Ret(0, api, "None", NoVal)
            \* .ok() drops the value carried by the Err
            /\ destructed' = IF api = "new_recover"
                             THEN destructed ELSE destructed + 1
            /\ UNCHANGED <<cell, pc, allocs, written>>
       ELSE /\ ctor' = IF api = "new_recover"
                       THEN Ret(0, api, "Ok", n) ELSE Ret(0, api, "Some", n)
            /\ allocated' = TRUE
            /\ counter' = InitialCounter(n)
            /\ value' = v
            /\ written' = v
            /\ allocs' = allocs + 1
            /\ pc' = [h \in Handles |->
                        IF h \in InitialHandles(n) THEN "idle" ELSE "none"]
            /\ UNCHANGED destructed
    /\ UNCHANGED <<call, ret, grant, prev, moved, seenOne, decs, freedBy, uaf>>

new_recover(n, v) == construct("new_recover", n, v)

new(n, v) == construct("new", n, v)

\* live(&self): one SeqCst load
live(h) ==
    /\ pc[h] = "idle"
    /\ \E c \in arc_counter :
         /\ ret' = Ret(h, "live", "usize", c)
         /\ seenOne' = [seenOne EXCEPT ![h] = @ \/ c = 1]
    /\ uaf' = (uaf \/ ~allocated)
    /\ UNCHANGED <<constructed, N, ctor, cell, pc, call, grant, prev, moved,
                   decs, hist>>

\* try_as_ref_mut(&self): load, then Some(&mut value) or None
try_as_ref_mut(h) ==
    /\ pc[h] = "idle"
    /\ \E c \in arc_counter :
         /\ ret' = IF IsSole(c) THEN Ret(h, "try_as_ref_mut", "Some", NoVal)
                                 ELSE Ret(h, "try_as_ref_mut", "None", NoVal)
         /\ grant' = [grant EXCEPT ![h] = @ \/ IsSole(c)]
         /\ seenOne' = [seenOne EXCEPT ![h] = @ \/ c = 1]
    /\ uaf' = (uaf \/ ~allocated)
    /\ UNCHANGED <<constructed, N, ctor, cell, pc, call, prev, moved, decs,
                   hist>>

\* a store through the &mut T that try_as_ref_mut returned
\* (`*p.lock().unwrap() = 420` of test_ref_mut)
write_mut(h, v) ==
    /\ pc[h] = "idle"
    /\ grant[h]
    /\ value' = v
    /\ written' = v
    /\ uaf' = (uaf \/ ~allocated)
    /\ UNCHANGED <<constructed, N, ctor, allocated, counter, pc, call, ret,
                   grant, prev, moved, seenOne, decs, allocs, freedBy,
                   destructed, original>>

\* deref(&self) followed by a read of the value
deref(h) ==
    /\ pc[h] = "idle"
    /\ \E x \in arc_value :
         ret' = Ret(h, "deref", "T", x)
    /\ uaf' = (uaf \/ ~allocated)
    /\ UNCHANGED <<constructed, N, ctor, cell, pc, call, grant, prev, moved,
                   seenOne, decs, hist>>

\* deref(&self) followed by a store through T's interior mutability
\* (`thread_ptr.data.lock().unwrap().insert(..)` of examples/thread.rs)
deref_write(h, v) ==
    /\ pc[h] = "idle"
    /\ value' = v
    /\ written' = v
    /\ uaf' = (uaf \/ ~allocated)
    /\ UNCHANGED <<constructed, N, ctor, allocated, counter, pc, call, ret,
                   grant, prev, moved, seenOne, decs, allocs, freedBy,
                   destructed, original>>

\* the None arm waits for the other owners instead of returning
AfterFailure_wait(op) == "waiting"
\* the .ok() of try_into_inner forgets the handle instead of dropping it
AfterFailure_idle(op) == "idle"
\* the None arm lets `self` go out of scope
AfterFailure_drop(op) == "dropping"
\* where `self` goes in the None arm: `None => Err(self)` hands it back to
\* the caller; the .ok() of try_into_inner then drops it
AfterFailure(op) ==
    IF op = "try_into_inner_recover" THEN "idle" ELSE "dropping"

\* `match self.try_as_ref_mut()` of try_into_inner_recover(self): the load
\* that decides between the Some and the None arm.  The handle is moved
\* into the call, so a borrow its owner held has ended.  On None,
\* try_into_inner_recover returns Err(self); try_into_inner turns that into
\* None with .ok(), which drops the handle.
reclaim_check(op, h) ==
    /\ pc[h] = "idle"
    /\ \E c \in arc_counter :
         /\ seenOne' = [seenOne EXCEPT ![h] = @ \/ c = 1]
         /\ IF IsSole(c)
            THEN /\ pc' = [pc EXCEPT ![h] = "rec_read"]
                 /\ call' = [call EXCEPT ![h] = op]
                 /\ ret' = ret
            ELSE /\ pc' = [pc EXCEPT ![h] = AfterFailure(op)]
                 /\ call' = call
                 /\ ret' = IF op = "try_into_inner_recover"
                            THEN Ret(h, op, "Err", NoVal)
                            ELSE Ret(h, op, "None", NoVal)
    /\ grant' = [grant EXCEPT ![h] = FALSE]
    /\ uaf' = (uaf \/ ~allocated)
    /\ UNCHANGED <<constructed, N, ctor, cell, prev, moved, decs, hist>>

try_into_inner_recover(h) == reclaim_check("try_into_inner_recover", h)

try_into_inner(h) == reclaim_check("try_into_inner", h)

\* `let value = unsafe { std::ptr::read(value as *const _) }`
recover_read(h) ==
    /\ pc[h] = "rec_read"
    /\ \E x \in arc_value : moved' = [moved EXCEPT ![h] = x]
    /\ pc' = [pc EXCEPT ![h] = "rec_free"]
    /\ uaf' = (uaf \/ ~allocated)
    /\ UNCHANGED <<constructed, N, ctor, cell, call, ret, grant, prev,
                   seenOne, decs, hist>>

\* `let _ = unsafe { Box::from_raw(self.inner.as_ptr()) }`: the allocation
\* is released; value is ManuallyDrop, so T's destructor does not run
recover_free(h) ==
    /\ pc[h] = "rec_free"
    /\ allocated' = FALSE
    /\ freedBy' = Append(freedBy, <<h, "reclaim">>)
    /\ pc' = [pc EXCEPT ![h] = "rec_forget"]
    /\ uaf' = (uaf \/ ~allocated)
    /\ UNCHANGED <<constructed, N, ctor, counter, value, call, ret, grant,
                   prev, moved, seenOne, decs, allocs, destructed, written,
                   original>>

\* mem::forget(self) is missing: the drop glue of `self` runs
AfterReclaim_drop == "dropping"
\* where `self` goes at the end of the Some arm: mem::forget(self)
AfterReclaim == "consumed"

\* `mem::forget(self); Ok(value)`
recover_forget(h) ==
    /\ pc[h] = "rec_forget"
    /\ pc' = [pc EXCEPT ![h] = AfterReclaim]
    /\ ret' = Ret(h, call[h],
                   IF call[h] = "try_into_inner" THEN "Some" ELSE "Ok",
                   moved[h])
    /\ call' = [call EXCEPT ![h] = "none"]
    /\ UNCHANGED <<constructed, N, ctor, cell, grant, prev, moved, seenOne,
                   decs, hist, uaf>>

\* Drop::drop: `self.arc().counter.fetch_sub(1, SeqCst) == 1`
drop(h) ==
    /\ pc[h] \in {"idle", "dropping"}
    /\ \E c \in arc_counter :
         /\ prev' = [prev EXCEPT ![h] = c]
         /\ counter' = fetch_sub(c)
         /\ pc' = [pc EXCEPT ![h] =
                     IF WasLast(c) THEN "drop_value" ELSE "dropped"]
    /\ decs' = [decs EXCEPT ![h] = @ + 1]
    /\ grant' = [grant EXCEPT ![h] = FALSE]
    /\ uaf' = (uaf \/ ~allocated)
    /\ UNCHANGED <<constructed, N, ctor, allocated, value, call, ret, moved,
                   seenOne, hist>>

\* `ManuallyDrop::drop(&mut self.inner.as_mut().value)`
drop_value(h) ==
    /\ pc[h] = "drop_value"
    /\ destructed' = destructed + 1
    /\ pc' = [pc EXCEPT ![h] = "drop_box"]
    /\ uaf' = (uaf \/ ~allocated)
    /\ UNCHANGED <<constructed, N, ctor, cell, call, ret, grant, prev, moved,
                   seenOne, decs, allocs, freedBy, written, original>>

\* `let _ = Box::from_raw(self.inner.as_ptr())` of drop
drop_box(h) ==
    /\ pc[h] = "drop_box"
    /\ allocated' = FALSE
    /\ freedBy' = Append(freedBy, <<h, "drop">>)
    /\ pc' = [pc EXCEPT ![h] = "dropped"]
    /\ uaf' = (uaf \/ ~allocated)
    /\ UNCHANGED <<constructed, N, ctor, counter, value, call, ret, grant,
                   prev, moved, seenOne, decs, allocs, destructed, written,
                   original>>

\* the steps of handle h that touch the cell
CellStep(h) ==
    \/ live(h)
    \/ try_as_ref_mut(h)
    \/ \E v \in Values : write_mut(h, v)
    \/ deref(h)
    \/ \E v \in Values : deref_write(h, v)
    \/ try_into_inner_recover(h)
    \/ try_into_inner(h)
    \/ recover_read(h)
    \/ recover_free(h)
    \/ drop(h)
    \/ drop_value(h)
    \/ drop_box(h)

Next ==
    \/ \E n \in 0..MaxN, v \in Values : new_recover(n, v)
    \/ \E n \in 0..MaxN, v \in Values : new(n, v)
    \/ \E h \in Handles : live(h)
    \/ \E h \in Handles : try_as_ref_mut(h)
    \/ \E h \in Handles, v \in Values : write_mut(h, v)
    \/ \E h \in Handles : deref(h)
    \/ \E h \in Handles, v \in Values : deref_write(h, v)
    \/ \E h \in Handles : try_into_inner_recover(h)
    \/ \E h \in Handles : try_into_inner(h)
    \/ \E h \in Handles : recover_read(h)
    \/ \E h \in Handles : recover_free(h)
    \/ \E h \in Handles : recover_forget(h)
    \/ \E h \in Handles : drop(h)
    \/ \E h \in Handles : drop_value(h)
    \/ \E h \in Handles : drop_box(h)

Spec == Init /\ [][Next]_vars

\* a handle is alive: its owner holds it (possibly inside a call that has
\* not yet given up its share); not alive once its fetch_sub has run or the
\* Box of the cell has been released through it
Alive(h) == pc[h] \in {"idle", "dropping", "rec_read", "rec_free"}
AliveSet == {h \in Handles : Alive(h)}
Gone(h) == pc[h] \in {"none", "dropped", "consumed"}

\* C1: while the cell is allocated, counter equals the number of alive
\* handles
CountIntegrity == allocated => counter = Cardinality(AliveSet)

CountIntegrityWitness ==
    /\ allocated /\ N = 3 /\ counter = 1
    /\ \E h \in Handles : pc[h] = "dropped"

\* C2: the Box is released at most once; it is released either by a
\* reclamation (which never decrements) or by the drop whose fetch_sub
\* returned 1; a drop whose fetch_sub returned anything else goes no further
OneFinalization ==
    /\ Len(freedBy) <= 1
    /\ \A i \in 1..Len(freedBy) :
         \/ /\ freedBy[i][2] = "reclaim"
            /\ pc[freedBy[i][1]] \in {"rec_forget", "consumed"}
            /\ decs[freedBy[i][1]] = 0
         \/ /\ freedBy[i][2] = "drop"
            /\ pc[freedBy[i][1]] = "dropped"
            /\ prev[freedBy[i][1]] = 1
    /\ \A h \in Handles :
         pc[h] \in {"drop_value", "drop_box"} => prev[h] = 1
    /\ \A h \in Handles :
         (decs[h] = 1 /\ prev[h] # 1) =>
            /\ pc[h] = "dropped"
            /\ \A i \in 1..Len(freedBy) : freedBy[i][1] # h

OneFinalizationWitness ==
    /\ Len(freedBy) = 1
    /\ freedBy[1][2] = "drop"
    /\ \E g \in Handles : pc[g] = "dropped" /\ prev[g] = 2

\* C3: no step touches the cell after its deallocation, and every alive
\* handle refers to an allocated cell
NoUseAfterFree ==
    /\ ~uaf
    /\ \A h \in Handles : Alive(h) => allocated

NoUseAfterFreeWitness ==
    /\ allocs = 1 /\ ~allocated /\ N >= 2
    /\ \E h \in Handles : pc[h] = "consumed"
    /\ \E g \in Handles : pc[g] = "dropped" /\ prev[g] = 2

\* C4: construction sets the counter to N, and no later step makes it
\* larger
CounterMonotone ==
    [][IF constructed THEN counter' <= counter
                      ELSE (N' >= 1 => counter' = N')]_vars

CounterMonotoneWitness ==
    /\ N = 3 /\ counter = 0
    /\ \A h \in Handles : pc[h] = "dropped"

\* C5: try_into_inner_recover takes the Some arm exactly when the counter
\* is 1 at its load; a handle consumed by it has returned the value last
\* stored in the cell, the Box has been released through it, and it has
\* neither decremented the counter nor run T's destructor
ReclaimSucceedsIffSole ==
    /\ [][\A h \in Handles :
             try_into_inner_recover(h) =>
                ((pc'[h] = "rec_read") <=> (counter = 1))]_vars
    /\ [](\A h \in Handles :
             (pc[h] = "idle" /\ counter = 1) =>
                \A c \in arc_counter : IsSole(c))
    /\ [](\A h \in Handles :
             pc[h] = "consumed" =>
                /\ ret.h = h
                /\ ret.kind \in {"Ok", "Some"}
                /\ ret.val = written
                /\ ~allocated
                /\ freedBy = << <<h, "reclaim">> >>
                /\ decs[h] = 0
                /\ prev[h] = NoVal
                /\ destructed = 0)

ReclaimSucceedsWitness ==
    \E h \in Handles :
      /\ pc[h] = "consumed"
      /\ ret = Ret(h, "try_into_inner_recover", "Ok", written)
      /\ N >= 2

\* C6: a try_into_inner_recover whose load does not see 1 returns Err with
\* the handle and changes nothing else: the cell, the position of every
\* handle and the histories are as before, and the handle can be used again
FailedReclaimNoEffect ==
    [][\A h \in Handles :
          (try_into_inner_recover(h) /\ counter # 1) =>
             /\ ret' = Ret(h, "try_into_inner_recover", "Err", NoVal)
             /\ call' = call
             /\ pc' = pc
             /\ pc'[h] = "idle"
             /\ UNCHANGED <<cell, decs, prev, moved, hist, uaf>>
             /\ AliveSet' = AliveSet]_vars

FailedReclaimWitness ==
    \E h \in Handles :
      /\ ret = Ret(h, "try_into_inner_recover", "Err", NoVal)
      /\ pc[h] = "idle"
      /\ counter >= 2
      /\ allocated

\* C7: try_as_ref_mut returns Some exactly when the caller is the only alive
\* handle; when it returns None the cell is unchanged
ExclusiveIffSole ==
    /\ [](\A h \in Handles :
             pc[h] = "idle" =>
                \A c \in arc_counter : IsSole(c) <=> (AliveSet = {h}))
    /\ [][\A h \in Handles :
             try_as_ref_mut(h) =>
                /\ ret'.h = h /\ ret'.op = "try_as_ref_mut"
                /\ (ret'.kind = "Some") <=> (AliveSet = {h})
                /\ (ret'.kind = "None") <=> (AliveSet # {h})
                /\ (ret'.kind = "Some") => grant'[h]
                /\ UNCHANGED <<cell, pc, call, decs, hist, uaf>>]_vars

ExclusiveWitness ==
    \E h \in Handles :
      /\ ret = Ret(h, "try_as_ref_mut", "Some", NoVal)
      /\ grant[h]
      /\ pc[h] = "idle"
      /\ N >= 2

\* C8: once a handle has loaded counter == 1, the counter stays 1 while the
\* handle is alive, and until the handle is dropped or consumed no other
\* handle takes a step that touches the cell; a handle that holds the
\* &mut T is the only handle left
SoleOwnershipStable ==
    /\ [](\A h \in Handles :
             (seenOne[h] /\ Alive(h)) => (allocated /\ counter = 1))
    /\ [](\A h \in Handles :
             (seenOne[h] \/ grant[h]) =>
                \A g \in Handles \ {h} : Gone(g))
    /\ [](\A h \in Handles : grant[h] => (seenOne[h] /\ pc[h] = "idle"))
    /\ [][\A h \in Handles :
             (seenOne[h] /\ pc[h] \notin {"dropped", "consumed"}) =>
                \A g \in Handles \ {h} : ~CellStep(g)]_vars

SoleOwnershipWitness ==
    \E h \in Handles :
      /\ seenOne[h] /\ grant[h]
      /\ N = 3
      /\ ret = Ret(h, "live", "usize", 1)

\* The polling loop of examples/thread.rs: the handle kept by main is only
\* ever passed to try_into_inner_recover, again and again, while the other
\* handles are used and dropped by their threads.  With the poller alive no
\* sibling can be the last owner, so the steps left out here (drop_value,
\* drop_box, write_mut and the Some arm for a sibling) are never enabled:
\* RetryClosed states it.
Poller == 1
Siblings == Handles \ {Poller}

recover ==
    \/ try_into_inner_recover(Poller)
    \/ recover_read(Poller)
    \/ recover_free(Poller)
    \/ recover_forget(Poller)

RetryNext ==
    \/ \E n \in 1..MaxN, v \in Values : new(n, v)
    \/ \E n \in 1..MaxN, v \in Values : new_recover(n, v)
    \/ try_into_inner_recover(Poller)
    \/ recover_read(Poller)
    \/ recover_free(Poller)
    \/ recover_forget(Poller)
    \/ \E h \in Siblings : live(h)
    \/ \E h \in Siblings : try_as_ref_mut(h)
    \/ \E h \in Siblings : deref(h)
    \/ \E h \in Siblings, v \in Values : deref_write(h, v)
    \/ \E h \in Siblings : try_into_inner_recover(h)
    \/ \E h \in Siblings : try_into_inner(h)
    \/ \E h \in Siblings : drop(h)

\* main's thread keeps running its loop; nothing is assumed of the siblings
RetrySpec == Init /\ [][RetryNext]_vars /\ WF_vars(recover)

RetryClosed ==
    \A h \in Handles :
      /\ pc[h] \notin {"drop_value", "drop_box"}
      /\ h \in Siblings => (~grant[h] /\ pc[h] \notin
                              {"rec_read", "rec_free", "rec_forget"})

AllSiblingsReleased ==
    /\ constructed
    /\ \A s \in Siblings : pc[s] \in {"none", "dropped"}

Reclaimed == pc[Poller] = "consumed"

\* C9: once every sibling has been dropped, the polling loop gets Ok, and
\* the value it gets is the value last stored in the cell
RetryTerminates ==
    /\ AllSiblingsReleased ~> Reclaimed
    /\ [](Reclaimed =>
            /\ AllSiblingsReleased
            /\ ret = Ret(Poller, "try_into_inner_recover", "Ok", written))

RetryWitness ==
    /\ Reclaimed
    /\ N = 3
    /\ ret = Ret(Poller, "try_into_inner_recover", "Ok", written)
    /\ \E s \in Siblings : prev[s] = 3

\* every handle of a constructed cell has been dropped or consumed
Terminal ==
    /\ constructed /\ N >= 1
    /\ \A h \in 1..N : pc[h] \in {"dropped", "consumed"}

MovedOut == Cardinality({h \in Handles : moved[h] # NoVal})

\* C10: T's destructor runs at most once and never on a value that was
\* moved out; when every handle was dropped it has run exactly once, when a
\* reclamation succeeded it has not run, and in a terminal state exactly one
\* of the two has happened
PayloadDisposedOnce ==
    N >= 1 =>
      /\ destructed + MovedOut <= 1
      /\ (\A h \in 1..N : pc[h] = "dropped") => destructed = 1
      /\ (\E h \in 1..N : pc[h] \in {"rec_forget", "consumed"}) =>
            (destructed = 0 /\ MovedOut = 1)
      /\ Terminal => destructed + MovedOut = 1

PayloadDisposedWitness ==
    /\ N = 3
    /\ \A h \in Handles : pc[h] = "dropped"
    /\ destructed = 1

\* C11: a construction with N = 0 allocates nothing and produces no handle;
\* new_recover returns Err with the value it was given, new returns None
ZeroConstructionFails ==
    /\ [][\A v \in Values :
             /\ new_recover(0, v) =>
                   /\ ctor' = Ret(0, "new_recover", "Err", v)
                   /\ UNCHANGED <<cell, pc, allocs, destructed>>
             /\ new(0, v) =>
                   /\ ctor' = Ret(0, "new", "None", NoVal)
                   /\ UNCHANGED <<cell, pc, allocs>>]_vars
    /\ []((constructed /\ N = 0) =>
             /\ allocs = 0
             /\ ~allocated
             /\ \A h \in Handles : pc[h] = "none"
             /\ ctor.kind \in {"Err", "None"}
             /\ ctor.kind = "Err" => ctor.val = original)

ZeroConstructionWitness ==
    /\ constructed /\ N = 0
    /\ ctor = Ret(0, "new_recover", "Err", original)
    /\ original = 1

\* nothing has happened since the construction
Fresh ==
    /\ constructed /\ N >= 1
    /\ ret = NoRet
    /\ written = original
    /\ \A h \in 1..N : pc[h] = "idle"

\* C12: a construction with N >= 1 allocates one cell with counter N and
\* value v and produces the handles 1..N, all idle; right after it deref
\* through any handle reads v and live on any handle returns N
ConstructionYieldsN ==
    /\ [][\A n \in 1..MaxN, v \in Values :
             (new_recover(n, v) \/ new(n, v)) =>
                /\ allocated' /\ allocs' = 1
                /\ counter' = n /\ value' = v
                /\ {h \in Handles : pc'[h] # "none"} = 1..n
                /\ ctor'.kind \in {"Ok", "Some"}
                /\ Fresh']_vars
    /\ [][Fresh =>
             \A h \in 1..N :
                /\ deref(h) => ret' = Ret(h, "deref", "T", original)
                /\ live(h) => ret' = Ret(h, "live", "usize", N)]_vars
    /\ [](Fresh => \A h \in 1..N : ENABLED deref(h) /\ ENABLED live(h))

ConstructionWitness ==
    /\ N = 3 /\ counter = 3
    /\ \A h \in 1..3 : pc[h] = "idle"
    /\ ret = Ret(3, "live", "usize", 3)
    /\ written = original

\* the steps of handle h
OwnStep(h) == CellStep(h) \/ recover_forget(h)

\* how far a handle has come: every step that moves a handle moves it up
Rank(p) ==
    CASE p = "none" -> 0
      [] p = "idle" -> 1
      [] p \in {"dropping", "rec_read"} -> 2
      [] p \in {"rec_free", "drop_value"} -> 3
      [] p \in {"rec_forget", "drop_box"} -> 4
      [] p \in {"dropped", "consumed"} -> 5
      [] OTHER -> 0

\* C13: a handle inside an operation always has a step of its own enabled,
\* whatever the other handles are doing, and each such step moves it
\* forward, so an operation ends after at most four steps of its own; on an
\* idle handle every operation can start, and live, try_as_ref_mut and a
\* failing try_into_inner_recover return in their first step
NeverBlocks ==
    /\ [](\A h \in Handles :
             pc[h] \notin {"none", "idle", "dropped", "consumed"} =>
                ENABLED OwnStep(h))
    /\ [](\A h \in Handles :
             pc[h] = "idle" =>
                /\ ENABLED live(h)
                /\ ENABLED try_as_ref_mut(h)
                /\ ENABLED try_into_inner_recover(h)
                /\ ENABLED try_into_inner(h)
                /\ ENABLED drop(h))
    /\ [][\A h \in Handles :
             pc'[h] # pc[h] => Rank(pc'[h]) > Rank(pc[h])]_vars
    /\ [][\A h \in Handles :
             /\ (live(h) \/ try_as_ref_mut(h)) =>
                   (pc'[h] = "idle" /\ ret'.h = h)
             /\ try_into_inner_recover(h) =>
                   \/ pc'[h] = "rec_read"
                   \/ pc'[h] = "idle" /\ ret'.h = h /\ ret'.kind = "Err"]_vars

NeverBlocksWitness ==
    \E h \in Handles :
      /\ pc[h] = "idle"
      /\ ret = Ret(h, "try_as_ref_mut", "None", NoVal)
      /\ \E g \in Handles \ {h} : pc[g] = "dropping"

\* C14: drop's fetch_sub takes exactly one off the counter and touches
\* nothing else; when it returned 1 the drop goes on to run T's destructor
\* once and to release the Box; when it returned anything else the drop is
\* over, takes no further step and has released nothing
DropDecrements ==
    /\ [][\A h \in Handles :
             drop(h) =>
                /\ prev'[h] = counter
                /\ counter' = counter - 1
                /\ decs'[h] = decs[h] + 1
                /\ UNCHANGED <<allocated, value, hist>>
                /\ pc'[h] = IF counter = 1 THEN "drop_value"
                                            ELSE "dropped"]_vars
    /\ [][\A h \in Handles :
             /\ drop_value(h) =>
                   /\ allocated /\ destructed' = destructed + 1
                   /\ UNCHANGED <<cell, freedBy>>
             /\ drop_box(h) =>
                   /\ allocated /\ ~allocated'
                   /\ UNCHANGED <<destructed, counter>>]_vars
    /\ [](\A h \in Handles :
             pc[h] = "dropped" =>
                /\ ~ENABLED OwnStep(h)
                /\ IF prev[h] = 1
                   THEN /\ destructed = 1
                        /\ ~allocated
                        /\ freedBy = << <<h, "drop">> >>
                   ELSE \A i \in 1..Len(freedBy) : freedBy[i][1] # h)

DropDecrementsWitness ==
    \E h, g \in Handles :
      /\ pc[h] = "dropped" /\ prev[h] = 1
      /\ pc[g] = "dropped" /\ prev[g] = 2
      /\ destructed = 1 /\ ~allocated

\* tests::test_ref_mut: p1 calls try_as_ref_mut in a loop until it gets
\* Some, stores a new value through the &mut T, then calls try_into_inner;
\* the other handles are read and dropped by their owners (here they may
\* also make the calls that do not store).
Tester == 1
Others == Handles \ {Tester}

test_ref_mut ==
    \/ ~grant[Tester] /\ written = original /\ try_as_ref_mut(Tester)
    \/ \E v \in Values \ {original} :
         written = original /\ write_mut(Tester, v)
    \/ written # original /\ try_into_inner(Tester)
    \/ recover_read(Tester)
    \/ recover_free(Tester)
    \/ recover_forget(Tester)

TestNext ==
    \/ \E n \in 1..MaxN, v \in Values : new(n, v)
    \/ ~grant[Tester] /\ written = original /\ try_as_ref_mut(Tester)
    \/ \E v \in Values \ {original} :
         written = original /\ write_mut(Tester, v)
    \/ written # original /\ try_into_inner(Tester)
    \/ recover_read(Tester)
    \/ recover_free(Tester)
    \/ recover_forget(Tester)
    \/ \E h \in Others : deref(h)
    \/ \E h \in Others : live(h)
    \/ \E h \in Others : try_as_ref_mut(h)
    \/ \E h \in Others : try_into_inner_recover(h)
    \/ \E h \in Others : try_into_inner(h)
    \/ \E h \in Others : drop(h)

\* the test's thread keeps running; nothing is assumed of the others
TestSpec == Init /\ [][TestNext]_vars /\ WF_vars(test_ref_mut)

AllOthersReleased ==
    /\ constructed
    /\ \A g \in Others : pc[g] \in {"none", "dropped"}

\* C15: once the other handles are dropped the loop gets Some; a
\* try_into_inner on a handle that holds the &mut T takes the Some arm; and
\* what it returns is the value stored through the &mut T, not the value
\* the cell was constructed with
ExclusiveThenReclaim ==
    /\ AllOthersReleased ~>
          (grant[Tester] \/ pc[Tester] \notin {"none", "idle"})
    /\ [][(grant[Tester] /\ try_into_inner(Tester)) =>
             pc'[Tester] = "rec_read"]_vars
    /\ [](pc[Tester] \notin {"none", "idle"} =>
             (seenOne[Tester] /\ written # original))
    /\ [](pc[Tester] = "consumed" =>
             /\ ret = Ret(Tester, "try_into_inner", "Some", written)
             /\ written # original)

ExclusiveThenReclaimWitness ==
    /\ pc[Tester] = "consumed"
    /\ N = 3
    /\ ret = Ret(Tester, "try_into_inner", "Some", written)
    /\ written # original

\* C16: the cell is allocated while any handle is alive, it is no longer
\* allocated only when none is, and once every handle has been dropped or
\* consumed the one allocation has been released, exactly once
CellLifetime ==
    /\ (\E h \in Handles : Alive(h)) => allocated
    /\ (allocs = 1 /\ ~allocated) =>
          \A h \in 1..N : pc[h] \in {"rec_forget", "consumed", "dropped"}
    /\ (N >= 1 /\ allocated) =>
          \E h \in 1..N : pc[h] \notin {"consumed", "dropped"}
    /\ Terminal => (allocs = 1 /\ ~allocated /\ Len(freedBy) = 1)

CellLifetimeWitness ==
    /\ Terminal /\ N = 3
    /\ freedBy = << <<2, "reclaim">> >>
    /\ ~allocated

\* C17: a try_into_inner whose load does not see 1 returns None and leaves
\* the handle to its drop, which then takes one off the counter; when the
\* others were dropped in between, that fetch_sub returns 1, T's destructor
\* runs and the Box is released, the caller still having got None
TryIntoInnerReleases ==
    /\ [][\A h \in Handles :
             (try_into_inner(h) /\ counter # 1) =>
                /\ pc'[h] = "dropping"
                /\ ret' = Ret(h, "try_into_inner", "None", NoVal)
                /\ UNCHANGED <<cell, decs, hist>>]_vars
    /\ [][\A h \in Handles :
             (pc[h] = "dropping" /\ pc'[h] # "dropping") =>
                /\ drop(h)
                /\ counter' = counter - 1
                /\ pc'[h] = IF counter = 1 THEN "drop_value"
                                            ELSE "dropped"]_vars
    /\ [](\A h \in Handles :
             pc[h] = "dropping" =>
                (allocated /\ counter >= 1 /\ ENABLED drop(h)))
    /\ [](\A h \in Handles :
             (ret = Ret(h, "try_into_inner", "None", NoVal)
                /\ pc[h] = "dropped") =>
                /\ decs[h] = 1
                /\ prev[h] = 1 =>
                      /\ destructed = 1
                      /\ ~allocated
                      /\ freedBy = << <<h, "drop">> >>)

TryIntoInnerReleasesWitness ==
    \E h \in Handles :
      /\ ret = Ret(h, "try_into_inner", "None", NoVal)
      /\ pc[h] = "dropped" /\ prev[h] = 1
      /\ destructed = 1 /\ ~allocated
      /\ N >= 2

\* C18: every handle runs fetch_sub at most once and a handle consumed by
\* a reclamation never; fetch_sub is never applied to a counter that is 0;
\* the counter is always within 0..N
NoUnderflow ==
    /\ [](counter \in 0..N)
    /\ [](\A h \in Handles :
             /\ decs[h] \in 0..1
             /\ pc[h] \in {"rec_read", "rec_free", "rec_forget", "consumed"}
                  => decs[h] = 0
             /\ prev[h] # 0
             /\ prev[h] # NoVal => prev[h] \in 1..N)
    /\ [][\A h \in Handles :
             drop(h) =>
                /\ counter >= 1
                /\ counter' = counter - 1
                /\ decs[h] = 0]_vars

NoUnderflowWitness ==
    /\ N = 3 /\ counter = 0
    /\ \A h \in Handles : decs[h] = 1 /\ prev[h] \in 1..3

\* C19: live changes nothing but what its caller learns; it returns the
\* counter, no later step makes the counter or the number of alive handles
\* larger, and so while the caller's handle is alive the value returned is
\* within 1..N and at least the counter and the number of alive handles
LiveSnapshotBound ==
    /\ [][\A h \in Handles :
             live(h) =>
                /\ ret' = Ret(h, "live", "usize", counter)
                /\ counter \in 1..N
                /\ UNCHANGED <<constructed, N, ctor, cell, pc, call, grant,
                               prev, moved, decs, hist, uaf>>]_vars
    /\ [][constructed =>
             /\ counter' <= counter
             /\ Cardinality(AliveSet') <= Cardinality(AliveSet)]_vars
    /\ []((ret.op = "live" /\ Alive(ret.h)) =>
             /\ ret.val \in 1..N
             /\ ret.val >= counter
             /\ ret.val >= Cardinality(AliveSet))

LiveSnapshotWitness ==
    \E h \in Handles :
      /\ ret = Ret(h, "live", "usize", 3)
      /\ Alive(h)
      /\ counter = 1
====
